---- MODULE Spec2Model ----
(***************************************************************************)
(* A model of pdfgen: the yaml tree -> document model deserializer         *)
(* (pdf/objects.py), the flow builder (PDF.render), the renderer adapter   *)
(* (renderer.py), the pipeline entry (main.generate) and the variable      *)
(* resolver (yaml.load_variables).                                         *)
(*                                                                         *)
(* Python values are records.  A yaml mapping is a record whose fields are *)
(* the keys that are present; a yaml null is NullV.  An exception that     *)
(* leaves a function is the name of its class in the field exc.            *)
(* reportlab is outside the repository: its flowables are records that     *)
(* keep the constructor arguments, and only these library failures are     *)
(* modelled: HexColor on a string that is no number, Image on a jpeg that  *)
(* cannot be opened, and the outcome of SimpleDocTemplate.build.           *)
(***************************************************************************)
EXTENDS Integers, Sequences, FiniteSets, TLC

\* ------------------------------------------------------------- bounds
MaxContent == 2
MaxRows == 2
MaxCols == 2
MaxText == 6
MaxBindings == 2

\* ------------------------------------------------------------- values
NullV == [kind |-> "null"]
NoExc == "none"

DictGet(d, k) == IF k \in DOMAIN d THEN d[k] ELSE NullV
Get(d, k, default) == IF k \in DOMAIN d THEN d[k] ELSE default

RECURSIVE Concat(_)
Concat(ss) == IF ss = <<>> THEN <<>> ELSE Head(ss) \o Concat(Tail(ss))

SeqsUpTo(S, n) == UNION {[1..k -> S] : k \in 0..n}

\* ------------------------------------------------------------- Margin, Sheet
MarginDefault == 16
inch == 72
SpaceDefault == 4
ParagraphSizeDefault == 12
FontDefault == "Times-Roman"
NoFill == "0xFFFFFF"

Margin(d) ==
  [left |-> Get(d, "left", MarginDefault), right |-> Get(d, "right", MarginDefault),
   top |-> Get(d, "top", MarginDefault), bottom |-> Get(d, "bottom", MarginDefault)]

Sheet_from_yaml(d) ==
  [margin |-> Margin(Get(d, "margin", [kind |-> "map"])),
   size |-> Get(d, "size", "A4"),
   font |-> Get(d, "font", FontDefault)]

SheetDefault == Sheet_from_yaml([kind |-> "map"])

\* reportlab.lib.pagesizes, in points rounded to integers
Size == [A4 |-> <<595, 842>>, A3 |-> <<842, 1191>>, A2 |-> <<1191, 1684>>]

Sheet_size_tuple(sheet) ==
  IF sheet.size \in DOMAIN Size THEN Size[sheet.size] ELSE <<-1, -1>>

\* ------------------------------------------------------------- flow items
Spacer(h) == [item |-> "Spacer", width |-> 0, height |-> h]
RL_PageBreak == [item |-> "PageBreak"]

Upper(a) ==
  CASE a = "left" -> "LEFT" [] a = "center" -> "CENTER" [] a = "right" -> "RIGHT"
    [] OTHER -> a

\* RL_Image opens a jpeg in its constructor; every other file only at build
EagerSuffix == {"gone.jpg"}
RL_Image_raises(resource) == resource \in EagerSuffix

\* HexColor: int(val, 16) of the digits after "0x"
HexStrings == {"0xFFFFFF", "0xFF0000", "0x00FF00"}
HexColor_raises(color) == color \notin HexStrings

\* ------------------------------------------------------------- elements
Paragraph_from_yaml(d) ==
  LET size == Get(d, "size", ParagraphSizeDefault) IN
  [cls |-> "Paragraph", parent |-> "None",
   space_before |-> size \div 3,
   space_after |-> Get(d, "space_after", SpaceDefault),
   alignment |-> Get(d, "alignment", "left"),
   size |-> size, text |-> Get(d, "text", "")]

Image_from_yaml(d) ==
  [cls |-> "Image", parent |-> "None",
   space_before |-> Get(d, "space_before", SpaceDefault),
   space_after |-> Get(d, "space_after", SpaceDefault),
   resource |-> Get(d, "resource", ""),
   alignment |-> Get(d, "alignment", "left"),
   width |-> Get(d, "width", inch), height |-> Get(d, "height", inch)]

PageBreak == [cls |-> "PageBreak", parent |-> "None",
              space_before |-> SpaceDefault, space_after |-> SpaceDefault]

Cell_from_yaml(d) ==
  [cls |-> "Cell", text |-> Get(d, "text", ""),
   background_color |-> Get(d, "background_color", NoFill)]

\* generate: [exc, out], out the list with the element's flowable appended
Paragraph_generate(self, flowable_list, font) ==
  [exc |-> NoExc,
   out |-> Append(flowable_list,
             [item |-> "Paragraph", text |-> self.text, alignment |-> self.alignment,
              fontSize |-> self.size, fontName |-> font])]

Image_generate(self, flowable_list) ==
  IF RL_Image_raises(self.resource)
  THEN [exc |-> "OSError", out |-> flowable_list]
  ELSE [exc |-> NoExc,
        out |-> Append(flowable_list,
                  [item |-> "Image", resource |-> self.resource, width |-> self.width,
                   height |-> self.height, hAlign |-> Upper(self.alignment)])]

PageBreak_generate(self, flowable_list) ==
  [exc |-> NoExc, out |-> Append(flowable_list, RL_PageBreak)]

\* ------------------------------------------------------------- Table
\* one slot of a row: a cell is appended, an image is generated into the row,
\* any other key leaves the row as it is
Table_from_yaml_col(col, acc) ==
  IF acc.exc # NoExc THEN acc
  ELSE IF DictGet(col, "cell") # NullV
       THEN [acc EXCEPT !.out = Append(@, Cell_from_yaml(col.cell))]
  ELSE IF DictGet(col, "image") # NullV
       THEN Image_generate([Image_from_yaml(col.image) EXCEPT !.parent = "Table"], acc.out)
  ELSE acc

RECURSIVE Table_from_yaml_cols(_, _)
Table_from_yaml_cols(cols, acc) ==
  IF cols = <<>> THEN acc
  ELSE Table_from_yaml_cols(Tail(cols), Table_from_yaml_col(Head(cols), acc))

RECURSIVE Table_from_yaml_rows(_, _)
Table_from_yaml_rows(rows, acc) ==
  IF rows = <<>> \/ acc.exc # NoExc THEN acc
  ELSE IF "row" \notin DOMAIN Head(rows)
       THEN [acc EXCEPT !.exc = "AssertionError"]
  ELSE LET row == Table_from_yaml_cols(Head(rows).row, [exc |-> NoExc, out |-> <<>>]) IN
       IF row.exc # NoExc THEN [acc EXCEPT !.exc = row.exc]
       ELSE Table_from_yaml_rows(Tail(rows), [acc EXCEPT !.out = Append(@, row.out)])

\* [exc, obj]
Table_from_yaml(d) ==
  IF "rows" \notin DOMAIN d THEN [exc |-> "AssertionError", obj |-> NullV]
  ELSE LET rows == Table_from_yaml_rows(d.rows, [exc |-> NoExc, out |-> <<>>]) IN
       [exc |-> rows.exc,
        obj |-> [cls |-> "Table", parent |-> "None",
                 space_before |-> Get(d, "space_before", SpaceDefault),
                 space_after |-> Get(d, "space_after", SpaceDefault),
                 border |-> Get(d, "border", FALSE), header |-> Get(d, "header", FALSE),
                 grid |-> Get(d, "grid", FALSE), rows |-> rows.out]]

IsCell(occupant) == "cls" \in DOMAIN occupant /\ occupant.cls = "Cell"

\* lines 235-244: the two parallel tables; background_colors holds an entry
\* for the Cells only
table_data_row(row) ==
  [p \in 1..Len(row) |->
     IF IsCell(row[p]) THEN [item |-> "Text", text |-> row[p].text] ELSE row[p]]

background_colors_row(row) ==
  LET cells == SelectSeq(row, IsCell) IN
  [j \in 1..Len(cells) |-> cells[j].background_color]

\* lines 251-254: one directive per entry of background_colors that is not
\* the sentinel, at the entry's own indices (j, i), both counted from 0
BackgroundDirective(j, i, color) ==
  [cmd |-> "BACKGROUND", start |-> <<j, i>>, stop |-> <<j, i>>, arg |-> color]

background_style_row(colors, i) ==
  LET idx == SelectSeq([j \in 1..Len(colors) |-> j], LAMBDA j : colors[j] # NoFill) IN
  [k \in 1..Len(idx) |-> BackgroundDirective(idx[k] - 1, i, colors[idx[k]])]

background_style(background_colors) ==
  Concat([i \in 1..Len(background_colors) |->
            background_style_row(background_colors[i], i - 1)])

Table_generate(self, flowable_list, font) ==
  LET table_data == [i \in 1..Len(self.rows) |-> table_data_row(self.rows[i])]
      background_colors == [i \in 1..Len(self.rows) |-> background_colors_row(self.rows[i])]
      fills == background_style(background_colors)
      style_args ==
        <<[cmd |-> "FONTNAME", start |-> <<0, 0>>, stop |-> <<-1, -1>>, arg |-> font]>>
        \o fills
        \o (IF self.header
            THEN <<[cmd |-> "LINEBELOW", start |-> <<0, 0>>, stop |-> <<-1, 0>>, arg |-> "black"],
                   [cmd |-> "BACKGROUND", start |-> <<0, 0>>, stop |-> <<-1, 0>>, arg |-> "lightgrey"]>>
            ELSE <<>>)
        \o (IF self.grid
            THEN <<[cmd |-> "GRID", start |-> <<0, 0>>, stop |-> <<-1, -1>>, arg |-> "grey"]>>
            ELSE <<>>)
        \o (IF self.border
            THEN <<[cmd |-> "BOX", start |-> <<0, 0>>, stop |-> <<-1, -1>>, arg |-> "black"]>>
            ELSE <<>>)
  IN IF \E k \in 1..Len(fills) : HexColor_raises(fills[k].arg)
     THEN [exc |-> "ValueError", out |-> flowable_list]
     ELSE [exc |-> NoExc,
           out |-> Append(flowable_list,
                     [item |-> "Table", data |-> table_data, style |-> style_args])]

\* ------------------------------------------------------------- Renderable
generate(self, flowable_list, fonts) ==
  CASE self.cls = "Paragraph" -> Paragraph_generate(self, flowable_list, fonts.paragraph)
    [] self.cls = "Table" -> Table_generate(self, flowable_list, fonts.table)
    [] self.cls = "Image" -> Image_generate(self, flowable_list)
    [] OTHER -> PageBreak_generate(self, flowable_list)

\* Renderable.render that wraps every element, whatever its parent
Renderable_render_always_spaced(self, flowable_list, fonts) ==
  LET g == generate(self, Append(flowable_list, Spacer(self.space_before)), fonts) IN
  IF g.exc # NoExc THEN g
  ELSE [g EXCEPT !.out = Append(@, Spacer(self.space_after))]

Renderable_render(self, flowable_list, fonts) ==
  IF self.parent = "PDF"
  THEN LET g == generate(self, Append(flowable_list, Spacer(self.space_before)), fonts) IN
       IF g.exc # NoExc THEN g
       ELSE [g EXCEPT !.out = Append(@, Spacer(self.space_after))]
  ELSE generate(self, flowable_list, fonts)

\* ------------------------------------------------------------- PDF
InvalidElement(dictionary) ==
  [level |-> "WARNING", msg |-> "Invalid yaml element", arg |-> dictionary]
RootMissing == [level |-> "ERROR", msg |-> "The root element should be 'pdf'", arg |-> NullV]

\* from_yaml_entry with the page break looked up by get, as the other three are
from_yaml_entry_page_break_by_get(dictionary, acc) ==
  IF DictGet(dictionary, "paragraph") # NullV
  THEN [acc EXCEPT !.content =
          Append(@, [Paragraph_from_yaml(dictionary.paragraph) EXCEPT !.parent = "PDF"])]
  ELSE IF DictGet(dictionary, "table") # NullV
  THEN LET table == Table_from_yaml(dictionary.table) IN
       IF table.exc # NoExc THEN [acc EXCEPT !.exc = table.exc]
       ELSE [acc EXCEPT !.content = Append(@, [table.obj EXCEPT !.parent = "PDF"])]
  ELSE IF DictGet(dictionary, "image") # NullV
  THEN [acc EXCEPT !.content =
          Append(@, [Image_from_yaml(dictionary.image) EXCEPT !.parent = "PDF"])]
  ELSE [acc EXCEPT
          !.content = IF DictGet(dictionary, "page_break") # NullV
                      THEN Append(@, PageBreak) ELSE @,
          !.log = Append(@, InvalidElement(dictionary))]

\* lines 344-394, one pass of the loop; acc = [exc, content, log]
from_yaml_entry(dictionary, acc) ==
  IF DictGet(dictionary, "paragraph") # NullV
  THEN [acc EXCEPT !.content =
          Append(@, [Paragraph_from_yaml(dictionary.paragraph) EXCEPT !.parent = "PDF"])]
  ELSE IF DictGet(dictionary, "table") # NullV
  THEN LET table == Table_from_yaml(dictionary.table) IN
       IF table.exc # NoExc THEN [acc EXCEPT !.exc = table.exc]
       ELSE [acc EXCEPT !.content = Append(@, [table.obj EXCEPT !.parent = "PDF"])]
  ELSE IF DictGet(dictionary, "image") # NullV
  THEN [acc EXCEPT !.content =
          Append(@, [Image_from_yaml(dictionary.image) EXCEPT !.parent = "PDF"])]
  ELSE [acc EXCEPT
          !.content = IF "page_break" \in DOMAIN dictionary THEN Append(@, PageBreak) ELSE @,
          !.log = Append(@, InvalidElement(dictionary))]

RECURSIVE from_yaml_content(_, _)
from_yaml_content(value, acc) ==
  IF value = <<>> \/ acc.exc # NoExc THEN acc
  ELSE from_yaml_content(Tail(value), from_yaml_entry(Head(value), acc))

\* PDF.from_yaml that goes on with an empty root when the root key is missing
PDF_from_yaml_no_abort(yaml_like) ==
  LET root == Get(yaml_like, "pdf", Get(yaml_like, "document", [kind |-> "map"]))
      sheet == IF "sheet" \in DOMAIN root THEN Sheet_from_yaml(root.sheet)
               ELSE SheetDefault
      c == from_yaml_content(Get(root, "content", <<>>),
                             [exc |-> NoExc, content |-> <<>>, log |-> <<>>])
  IN [exc |-> c.exc,
      pdf |-> IF c.exc # NoExc THEN NullV
              ELSE [kind |-> "PDF", sheet |-> sheet, content |-> c.content],
      log |-> IF "pdf" \in DOMAIN yaml_like THEN c.log ELSE <<RootMissing>> \o c.log]

\* PDF.from_yaml: [exc, pdf, log]; pdf is NullV for None
PDF_from_yaml(yaml_like) ==
  LET root == DictGet(yaml_like, "pdf") IN
  IF root = NullV
  THEN [exc |-> NoExc, pdf |-> NullV, log |-> <<RootMissing>>]
  ELSE LET sheet == IF "sheet" \in DOMAIN root THEN Sheet_from_yaml(root.sheet)
                    ELSE SheetDefault
           c == from_yaml_content(Get(root, "content", <<>>),
                                  [exc |-> NoExc, content |-> <<>>, log |-> <<>>])
       IN [exc |-> c.exc,
           pdf |-> IF c.exc # NoExc THEN NullV
                   ELSE [kind |-> "PDF", sheet |-> sheet, content |-> c.content],
           log |-> c.log]

RECURSIVE render_elements(_, _, _)
render_elements(content, acc, fonts) ==
  IF content = <<>> \/ acc.exc # NoExc THEN acc
  ELSE render_elements(Tail(content), Renderable_render(Head(content), acc.out, fonts), fonts)

SheetFonts(pdf) == [paragraph |-> pdf.sheet.font, table |-> pdf.sheet.font]

\* PDF.render: [exc, out]; Paragraph.font and Table.font are SheetFonts(self)
\* from its first line on
PDF_render(self) ==
  render_elements(self.content, [exc |-> NoExc, out |-> <<>>], SheetFonts(self))

\* ------------------------------------------------------------- renderer.render
BuildOutcomes == {"ok", "PermissionError", "Exception"}

RECURSIVE generate_elements(_, _, _)
generate_elements(content, acc, fonts) ==
  IF content = <<>> \/ acc.exc # NoExc THEN acc
  ELSE generate_elements(Tail(content), generate(Head(content), acc.out, fonts), fonts)

\* render(file_name, pdf) with the class fonts as they are and the outcome of
\* doc.build: [exc, ret, doc_template, built, log]
render(file_name, pdf, fonts, outcome) ==
  IF pdf = NullV
  THEN [exc |-> "AttributeError", ret |-> "unset", doc_template |-> NullV,
        built |-> NullV, log |-> <<>>]
  ELSE LET doc == [kind |-> "SimpleDocTemplate", filename |-> file_name,
                   pagesize |-> Sheet_size_tuple(pdf.sheet),
                   leftMargin |-> pdf.sheet.margin.left,
                   rightMargin |-> pdf.sheet.margin.right,
                   topMargin |-> pdf.sheet.margin.top,
                   bottomMargin |-> pdf.sheet.margin.bottom]
           content == generate_elements(pdf.content, [exc |-> NoExc, out |-> <<>>], fonts)
       IN IF content.exc # NoExc
          THEN [exc |-> content.exc, ret |-> "unset", doc_template |-> doc,
                built |-> NullV, log |-> <<>>]
          ELSE [exc |-> NoExc,
                ret |-> IF outcome = "ok" THEN "True" ELSE "False",
                doc_template |-> doc,
                built |-> [kind |-> "list", items |-> content.out],
                log |-> CASE outcome = "ok" -> <<>>
                          [] outcome = "PermissionError" ->
                               <<[level |-> "ERROR", msg |-> "Could not open the output file",
                                  arg |-> NullV]>>
                          [] OTHER ->
                               <<[level |-> "FATAL",
                                  msg |-> "One of the resources could not be loaded",
                                  arg |-> NullV]>>]

\* ------------------------------------------------------------- inputs
ParagraphYamls ==
  {[kind |-> "map", text |-> "Hi", size |-> 12],
   [kind |-> "map", text |-> "Bye", size |-> 10, space_after |-> 2]}

ImageYamls ==
  {[kind |-> "map", resource |-> "logo.png"],
   [kind |-> "map", resource |-> "gone.jpg", alignment |-> "center"]}

TableYamls ==
  {[kind |-> "map", header |-> TRUE,
    rows |-> <<[kind |-> "map",
                row |-> <<[image |-> [kind |-> "map", resource |-> "logo.png"]],
                          [cell |-> [kind |-> "map", text |-> "c",
                                     background_color |-> "0x00FF00"]]>>]>>],
   [kind |-> "map",
    rows |-> <<[kind |-> "map",
                row |-> <<[cell |-> [kind |-> "map", text |-> "d",
                                     background_color |-> "red"]]>>]>>],
   [kind |-> "map", border |-> TRUE]}

Known == {"paragraph", "table", "image", "page_break"}

Entries ==
  {[paragraph |-> v] : v \in ParagraphYamls \cup {NullV}}
  \cup {[table |-> v] : v \in TableYamls \cup {NullV}}
  \cup {[image |-> v] : v \in ImageYamls \cup {NullV}}
  \cup {[page_break |-> v] : v \in {NullV, [kind |-> "map"]}}
  \cup {[heading |-> [kind |-> "map", text |-> "Title"]]}

Contents == SeqsUpTo(Entries, MaxContent)

SheetYamls ==
  {[kind |-> "map", size |-> "A3", font |-> "Helvetica",
    margin |-> [kind |-> "map", left |-> 20]],
   [kind |-> "map", size |-> "A5"]}

Roots ==
  {[kind |-> "map", content |-> c] : c \in Contents}
  \cup {[kind |-> "map", sheet |-> sh, content |-> c] : sh \in SheetYamls, c \in Contents}
  \cup {[kind |-> "map", title |-> "t", sheet |-> sh] : sh \in SheetYamls}

Trees ==
  {[kind |-> "map", pdf |-> r] : r \in Roots}
  \cup {[kind |-> "map", pdf |-> NullV]}
  \cup {[kind |-> "map", document |-> r] : r \in {x \in Roots : "sheet" \notin DOMAIN x}}

\* ------------------------------------------------------------- state
VARIABLES pc, op, yaml_like, pdf, log, fonts, flow, render_called, doc_template,
          built, ret, exc,
          table_yaml, table, table_flow, table_exc,
          yaml_raw, variables, decoded, var_log

pipelineVars == <<pc, op, yaml_like, pdf, log, fonts, flow, render_called, doc_template,
                  built, ret, exc>>
tableVars == <<table_yaml, table, table_flow, table_exc>>
resolverVars == <<yaml_raw, variables, decoded, var_log>>
vars == <<pipelineVars, tableVars, resolverVars>>

InitPipeline ==
  /\ pc = "idle" /\ op = "none"
  /\ yaml_like = NullV /\ pdf = NullV /\ log = <<>>
  /\ fonts = [paragraph |-> FontDefault, table |-> FontDefault]
  /\ flow = NullV /\ render_called = FALSE /\ doc_template = NullV
  /\ built = NullV /\ ret = "unset" /\ exc = NoExc

InitTable ==
  table_yaml = NullV /\ table = NullV /\ table_flow = NullV /\ table_exc = NoExc

InitResolver ==
  yaml_raw = NullV /\ variables = <<>> /\ decoded = NullV /\ var_log = <<>>

Init == InitPipeline /\ InitTable /\ InitResolver

\* yaml.parse of a decoded file: PDF.from_yaml
Parse(t) ==
  /\ pc = "idle"
  /\ LET r == PDF_from_yaml(t) IN
     /\ pdf' = r.pdf /\ log' = r.log /\ exc' = r.exc
     /\ pc' = IF r.exc # NoExc THEN "done" ELSE "parsed"
  /\ yaml_like' = t /\ op' = "parse"
  /\ UNCHANGED <<fonts, flow, render_called, doc_template, built, ret>>
  /\ UNCHANGED <<tableVars, resolverVars>>

\* pdf.render() on a parsed document
FlowBuild ==
  /\ pc = "parsed" /\ pdf # NullV
  /\ fonts' = SheetFonts(pdf)
  /\ LET r == PDF_render(pdf) IN
     /\ exc' = r.exc
     /\ flow' = IF r.exc # NoExc THEN NullV ELSE [kind |-> "list", items |-> r.out]
     /\ pc' = IF r.exc # NoExc THEN "done" ELSE "flowed"
  /\ op' = "PDF.render"
  /\ UNCHANGED <<yaml_like, pdf, log, render_called, doc_template, built, ret>>
  /\ UNCHANGED <<tableVars, resolverVars>>

\* renderer.render(file_name, pdf) on what parse returned
Render(outcome) ==
  /\ pc \in {"parsed", "flowed"}
  /\ LET r == render("generated.pdf", pdf, fonts, outcome) IN
     /\ exc' = r.exc /\ ret' = r.ret /\ doc_template' = r.doc_template
     /\ built' = r.built /\ log' = log \o r.log
  /\ render_called' = TRUE
  /\ pc' = "done" /\ op' = "render"
  /\ UNCHANGED <<yaml_like, pdf, fonts, flow>>
  /\ UNCHANGED <<tableVars, resolverVars>>

Generating == [level |-> "INFO", msg |-> "Generating file", arg |-> NullV]

\* main.generate(input_file, output_file)
Generate(t, outcome) ==
  /\ pc = "idle"
  /\ LET p == PDF_from_yaml(t)
         r == render("generated.pdf", p.pdf, fonts, outcome)
     IN IF p.exc # NoExc
        THEN /\ pdf' = p.pdf /\ log' = <<Generating>> \o p.log /\ exc' = p.exc
             /\ UNCHANGED <<render_called, doc_template, built, ret>>
        ELSE /\ pdf' = p.pdf /\ exc' = r.exc /\ ret' = r.ret
             /\ doc_template' = r.doc_template /\ built' = r.built
             /\ render_called' = TRUE
             /\ log' = <<Generating>> \o p.log \o r.log
                       \o (IF r.ret = "True"
                           THEN <<[level |-> "INFO", msg |-> "Document successfully rendered",
                                   arg |-> NullV]>>
                           ELSE <<>>)
  /\ yaml_like' = t /\ pc' = "done" /\ op' = "generate"
  /\ UNCHANGED <<fonts, flow>>
  /\ UNCHANGED <<tableVars, resolverVars>>

Idle == pc = "idle"

Next ==
  \/ Idle /\ \E t \in Trees : Parse(t)
  \/ FlowBuild
  \/ \E outcome \in BuildOutcomes : Render(outcome)
  \/ Idle /\ \E t \in Trees, outcome \in BuildOutcomes : Generate(t, outcome)

Spec == Init /\ [][Next]_vars

\* ------------------------------------------------------------- Table alone
SlotYamls ==
  {[cell |-> [kind |-> "map", text |-> "a"]],
   [cell |-> [kind |-> "map", text |-> "b", background_color |-> "0xFF0000"]],
   [cell |-> [kind |-> "map", text |-> "c", background_color |-> "red"]],
   [cell |-> NullV],
   [image |-> [kind |-> "map", resource |-> "logo.png"]],
   [image |-> [kind |-> "map", resource |-> "gone.jpg"]],
   [note |-> [kind |-> "map", text |-> "n"]]}

RowYamls == {[kind |-> "map", row |-> cols] : cols \in SeqsUpTo(SlotYamls, MaxCols)}

TableInputs ==
  {[kind |-> "map", rows |-> rows, header |-> h, grid |-> g, border |-> b] :
     rows \in SeqsUpTo(RowYamls, MaxRows), h \in BOOLEAN, g \in BOOLEAN, b \in BOOLEAN}
  \cup {[kind |-> "map", header |-> TRUE]}

TableFromYaml(y) ==
  /\ table_yaml = NullV
  /\ table_yaml' = y
  /\ LET r == Table_from_yaml(y) IN
     /\ table_exc' = r.exc
     /\ table' = IF r.exc # NoExc THEN NullV ELSE r.obj
  /\ UNCHANGED <<table_flow, pipelineVars, resolverVars>>

TableGenerate ==
  /\ table # NullV /\ table_flow = NullV /\ table_exc = NoExc
  /\ LET r == Table_generate(table, <<>>, fonts.table) IN
     /\ table_exc' = r.exc
     /\ table_flow' = IF r.exc # NoExc THEN NullV ELSE [kind |-> "list", items |-> r.out]
  /\ UNCHANGED <<table_yaml, table, pipelineVars, resolverVars>>

NoTable == table_yaml = NullV

NextTable ==
  \/ NoTable /\ \E y \in TableInputs : TableFromYaml(y)
  \/ TableGenerate

SpecTable == Init /\ [][NextTable]_vars

\* ------------------------------------------------------------- yaml.load_variables
\* text is a sequence of characters
Chars == {"<", ">", "a", "b"}
WordChars == {"a", "b"}
Str(chars) == [kind |-> "str", chars |-> chars]

IsPrefix(p, s) == Len(p) <= Len(s) /\ SubSeq(s, 1, Len(p)) = p
Drop(s, n) == SubSeq(s, n + 1, Len(s))

\* re.sub(pattern, repl, string) for a pattern and a replacement without
\* special characters: the non-overlapping matches, leftmost first
RECURSIVE re_sub(_, _, _)
re_sub(pattern, repl, string) ==
  IF Len(string) < Len(pattern) THEN string
  ELSE IF IsPrefix(pattern, string)
       THEN repl \o re_sub(pattern, repl, Drop(string, Len(pattern)))
       ELSE <<Head(string)>> \o re_sub(pattern, repl, Tail(string))

\* the length of the longest run of word characters at the head of s
RECURSIVE WordRun(_)
WordRun(s) == IF s # <<>> /\ Head(s) \in WordChars THEN 1 + WordRun(Tail(s)) ELSE 0

\* re.findall(r"<\w+>", string)
RECURSIVE re_findall_variables(_)
re_findall_variables(string) ==
  IF string = <<>> THEN <<>>
  ELSE LET n == WordRun(Tail(string)) IN
       IF Head(string) = "<" /\ n > 0 /\ Len(string) >= n + 2 /\ string[n + 2] = ">"
       THEN <<SubSeq(string, 1, n + 2)>> \o re_findall_variables(Drop(string, n + 2))
       ELSE re_findall_variables(Tail(string))

\* has_variables(string) with init.yaml_raw loaded: an empty argument means
\* the raw text
has_variables(string, raw) ==
  re_findall_variables(IF string = <<>> THEN raw ELSE string)

\* the loop of load_variables, lines 37-45: acc = [string, log]
RECURSIVE load_variables_loop(_, _)
load_variables_loop(items, acc) ==
  IF items = <<>> THEN acc
  ELSE LET name_str == <<"<">> \o Head(items).name \o <<">">>
           string == re_sub(name_str, Head(items).value, acc.string)
       IN load_variables_loop(Tail(items),
            [string |-> string,
             log |-> IF string = acc.string
                     THEN Append(acc.log, [level |-> "WARNING", msg |-> "not found",
                                           arg |-> Head(items).name])
                     ELSE acc.log])

\* load_variables(variables): [string, log], string the text handed to safe_load
load_variables(items, raw) ==
  LET r == load_variables_loop(items, [string |-> raw, log |-> <<>>])
      matches == has_variables(r.string, raw)
  IN [string |-> r.string,
      log |-> r.log \o [i \in 1..Len(matches) |->
                          [level |-> "WARNING", msg |-> "not overridden",
                           arg |-> matches[i]]]]

Texts == SeqsUpTo(Chars, MaxText)
Names == {<<"a">>, <<"b">>}
Values == {<<>>, <<"a">>, <<"<", "b", ">">>}
Items == [name : Names, value : Values]
Bindings ==
  {vs \in SeqsUpTo(Items, MaxBindings) :
     \A i, j \in 1..Len(vs) : i # j => vs[i].name # vs[j].name}

\* init(yaml_path) on a file that exists
InitYaml(text) ==
  /\ yaml_raw = NullV
  /\ yaml_raw' = Str(text)
  /\ UNCHANGED <<variables, decoded, var_log, pipelineVars, tableVars>>

LoadVariables(vs) ==
  /\ decoded = NullV /\ var_log = <<>>
  /\ variables' = vs
  /\ IF yaml_raw = NullV
     THEN /\ decoded' = NullV
          /\ var_log' = <<[level |-> "WARNING", msg |-> "yaml file not loaded",
                           arg |-> <<>>]>>
     ELSE LET r == load_variables(vs, yaml_raw.chars) IN
          /\ decoded' = Str(r.string)
          /\ var_log' = r.log
  /\ UNCHANGED <<yaml_raw, pipelineVars, tableVars>>

NotLoaded == yaml_raw = NullV
NotDecoded == decoded = NullV /\ var_log = <<>>

NextResolver ==
  \/ NotLoaded /\ \E text \in Texts : InitYaml(text)
  \/ NotDecoded /\ \E vs \in Bindings : LoadVariables(vs)

SpecResolver == Init /\ [][NextResolver]_vars

\* ------------------------------------------------------------- properties
\* of the resolver and of the table
\* the variables of the mapping by name
Bound(vs, name) == \E i \in 1..Len(vs) : vs[i].name = name
ValueOf(vs, name) == vs[CHOOSE i \in 1..Len(vs) : vs[i].name = name].value

\* the raw text with each placeholder of the raw text that has a binding
\* replaced by its value, and nothing else touched
RECURSIVE Substituted(_, _)
Substituted(string, vs) ==
  IF string = <<>> THEN <<>>
  ELSE LET n == WordRun(Tail(string))
           isVar == Head(string) = "<" /\ n > 0 /\ Len(string) >= n + 2
                    /\ string[n + 2] = ">"
           name == SubSeq(string, 2, n + 1)
       IN IF isVar /\ Bound(vs, name)
          THEN ValueOf(vs, name) \o Substituted(Drop(string, n + 2), vs)
          ELSE IF isVar
          THEN SubSeq(string, 1, n + 2) \o Substituted(Drop(string, n + 2), vs)
          ELSE <<Head(string)>> \o Substituted(Tail(string), vs)

\* C8: the text load_variables decodes is the loaded text with every
\* placeholder <name> of the loaded text that has a binding replaced by the
\* bound value and everything else unchanged; a value is not substituted again.
C8_SubstitutesLoadedText ==
  (yaml_raw # NullV /\ decoded # NullV) =>
    decoded.chars = Substituted(yaml_raw.chars, variables)

FillSet(style) ==
  {style[k] : k \in {n \in 1..Len(style) :
                       style[n].cmd = "BACKGROUND" /\ style[n].start = style[n].stop}}

CellFills(rows) ==
  {BackgroundDirective(x[2] - 1, x[1] - 1, rows[x[1]][x[2]].background_color) :
     x \in {y \in (1..Len(rows)) \X (1..MaxCols + 1) :
              /\ y[2] <= Len(rows[y[1]])
              /\ IsCell(rows[y[1]][y[2]])
              /\ rows[y[1]][y[2]].background_color # NoFill}}

\* C9: the cell-specific background directives Table.generate emits are, for
\* each Cell whose background_color is not "0xFFFFFF", one directive at the
\* (column, row) the cell has in the table data, and no other.
C9_FillAtCellPosition ==
  table_flow # NullV =>
    /\ FillSet(table_flow.items[1].style) = CellFills(table.rows)
    /\ \A i \in 1..Len(table.rows) : \A q \in 1..Len(table.rows[i]) :
         IsCell(table.rows[i][q]) =>
           table_flow.items[1].data[i][q].text = table.rows[i][q].text


\* ------------------------------------------------------------- properties
\* of the pipeline
EntryKey(dictionary) == CHOOSE k \in DOMAIN dictionary : TRUE
InputContent == Get(DictGet(yaml_like, "pdf"), "content", <<>>)
Variant == [paragraph |-> "Paragraph", table |-> "Table", image |-> "Image",
            page_break |-> "PageBreak"]
Classes(content) == [i \in 1..Len(content) |-> content[i].cls]
Returned == pdf # NullV

KeyRecognized(dictionary) == EntryKey(dictionary) \in Known
ValueRecognized(dictionary) ==
  \/ EntryKey(dictionary) = "page_break"
  \/ EntryKey(dictionary) \in Known /\ dictionary[EntryKey(dictionary)] # NullV

VariantsOf(entries) == [i \in 1..Len(entries) |-> Variant[EntryKey(entries[i])]]

\* C1 as stated: the document from_yaml returns holds one element per content
\* entry whose key is paragraph, table, image or page_break, of the matching
\* variant and in the order of the entries; the other entries add nothing.
C1_OnePerKnownKey ==
  Returned => Classes(pdf.content) = VariantsOf(SelectSeq(InputContent, KeyRecognized))

\* C1 amended: the document from_yaml returns holds one element, of the matching
\* variant and in entry order, per entry whose key is page_break or whose key is
\* paragraph, table or image with a value that is not null; an entry with another
\* key, or with a null paragraph, table or image, adds nothing.
C1_OnePerPresentElement ==
  Returned => Classes(pdf.content) = VariantsOf(SelectSeq(InputContent, ValueRecognized))

C1_Witness ==
  /\ Returned /\ Len(InputContent) = 2 /\ Len(pdf.content) = 1
  /\ EntryKey(InputContent[1]) = "heading" /\ pdf.content[1].cls = "PageBreak"

IsInvalidElement(event) == event.level = "WARNING" /\ event.msg = "Invalid yaml element"
KeyUnrecognized(dictionary) == ~KeyRecognized(dictionary)

\* a paragraph, table or image entry carries a mapping (a null one is the
\* case of C1)
ValuePresent(dictionary) ==
  EntryKey(dictionary) \in {"paragraph", "table", "image"}
    => dictionary[EntryKey(dictionary)] # NullV

\* C2: the "invalid element" warnings of from_yaml are exactly the content
\* entries whose key is no known discriminator, one warning each and in order;
\* an entry with a known key gets no warning.  Stated for the content lists
\* whose paragraph, table and image entries carry a mapping.
C2_WarningPerUnknownKey ==
  (Returned /\ \A i \in 1..Len(InputContent) : ValuePresent(InputContent[i])) =>
    LET w == SelectSeq(log, IsInvalidElement) IN
    [i \in 1..Len(w) |-> w[i].arg] = SelectSeq(InputContent, KeyUnrecognized)

RootAbsent == yaml_like # NullV /\ "pdf" \notin DOMAIN yaml_like

IsError(event) == event.level = "ERROR"
IsWarning(event) == event.level = "WARNING"

\* C3: from a tree with no root key 'pdf', from_yaml returns None without
\* raising, exactly one event of level ERROR is logged and no warning, and no
\* element, flow or build comes from the tree; the error is the only event
\* from_yaml logs.
C3_MissingRoot ==
  RootAbsent =>
    /\ pdf = NullV /\ flow = NullV /\ built = NullV
    /\ SelectSeq(log, IsError) = <<RootMissing>>
    /\ SelectSeq(log, IsWarning) = <<>>
    /\ (op = "parse" => exc = NoExc /\ log = <<RootMissing>>)

C3_Witness ==
  /\ RootAbsent /\ op = "parse" /\ pc = "parsed"
  /\ Len(Get(yaml_like.document, "content", <<>>)) = 2

C4_Item(element) == generate(element, <<>>, fonts).out
C4_Group(element) ==
  IF element.cls = "PageBreak" THEN <<RL_PageBreak>>
  ELSE IF element.parent = "PDF"
       THEN <<Spacer(element.space_before)>> \o C4_Item(element)
            \o <<Spacer(element.space_after)>>
       ELSE C4_Item(element)

\* C4: the flow PDF.render returns is the concatenation, in document order, of
\* [spacer(space_before), item, spacer(space_after)] for each paragraph, table
\* and image whose parent is the document, and [pagebreak] alone for each
\* PageBreak; every paragraph, table and image of a parsed document is such a
\* child, and an element with another parent gives its item alone.
C4_FlowGroups ==
  flow # NullV =>
    /\ flow.items = Concat([i \in 1..Len(pdf.content) |-> C4_Group(pdf.content[i])])
    /\ \A i \in 1..Len(pdf.content) :
         pdf.content[i].parent = "PDF" <=> pdf.content[i].cls # "PageBreak"

C4_Witness ==
  /\ flow # NullV /\ Len(pdf.content) = 2
  /\ pdf.content[1].cls = "Paragraph" /\ pdf.content[2].cls = "PageBreak"
  /\ Len(flow.items) = 4

\* C5: the flow items handed to the external build are the items PDF.render
\* produces for the same document, spacers and the sheet's font included.
C5_BuildGetsFlow ==
  built # NullV => built.items = PDF_render(pdf).out

\* C6: render(file_name, pdf) on a document ends with True or False and no
\* exception leaves it; False comes with one logged cause.
C6_RenderReturnsBool ==
  (op = "render" /\ pdf # NullV) =>
    /\ exc = NoExc /\ ret \in {"True", "False"}
    /\ (ret = "False" => Len(log) > 0 /\ log[Len(log)].level \in {"ERROR", "FATAL"})

\* C7: when generate parses a tree with no root key, the renderer is not
\* invoked on the missing document and no exception arises from it.
C7_AbortOnMissingRoot ==
  (op = "generate" /\ RootAbsent) => (~render_called /\ exc = NoExc)

\* C10: the page size handed to the external renderer is the physical pair
\* of A4, A3 or A2, never the sentinel (-1, -1).
C10_KnownPageSize ==
  doc_template # NullV => doc_template.pagesize \in {Size[k] : k \in DOMAIN Size}

====
